---- MODULE Spec2Model ----
(***************************************************************************)
(* Entra-authenticated connection set-up and PGVector usage of             *)
(* docs/docs/integrations/vectorstores/azure_db_for_postgresql.ipynb.      *)
(*                                                                         *)
(* Spec      : credential resolution (get_credential, decode_jwt,          *)
(*             get_token_and_username), connection construction            *)
(*             (create_postgres_engine, get_connection_uri) and the        *)
(*             do_connect hook (provide_dynamic_credentials) under         *)
(*             concurrently running threads.                               *)
(* SpecStore : the vector store the notebook drives (add_documents,        *)
(*             delete, similarity_search with metadata filters).           *)
(***************************************************************************)
EXTENDS Integers, Sequences, FiniteSets, TLC

\* ------------------------------------------------------------------ bounds
MaxConns == 2        \* physical connection attempts of the pool
MaxId == 2           \* document ids 1..MaxId

\* Two threads check out connections, so that two calls can race.
Threads == {1, 2}

\* Each thread constructs at most one DefaultAzureCredential, and each
\* connection attempt makes at most one fetch, which yields at most one token.
MaxHandles == Cardinality(Threads)
MaxTokens == MaxConns
MaxFetches == MaxConns

\* ------------------------------------------------------- process environment
EnvVars == {"DBHOST", "DBNAME", "DBUSER", "DBPASSWORD", "SSLMODE", "DBPORT"}

\* The configuration cell sets DBHOST, DBNAME and SSLMODE, and DBUSER and
\* DBPASSWORD too when USE_ENTRA_AUTH is off.
CellSets(entra) ==
  IF entra THEN {"DBHOST", "DBNAME", "SSLMODE"}
  ELSE {"DBHOST", "DBNAME", "SSLMODE", "DBUSER", "DBPASSWORD"}

\* What each builder subscripts in os.environ.
TokenModeRequired == {"DBHOST", "DBNAME"}
StaticModeOptionalSslmode == {"DBHOST", "DBNAME", "DBUSER", "DBPASSWORD"}

StaticModeRequired == {"DBHOST", "DBNAME", "DBUSER", "DBPASSWORD", "SSLMODE"}

\* The environments the notebook is run in: what the cell sets, or that with
\* one of the variables its builder subscripts left out.
Environments(entra) ==
  {CellSets(entra)} \cup
  {CellSets(entra) \ {v} :
     v \in IF entra THEN TokenModeRequired ELSE StaticModeRequired}

VARIABLES
  USE_ENTRA_AUTH, \* the notebook's authentication flag
  environ,        \* os.environ: the set of variables that are set
  connection,     \* "unbuilt" | "engine" | "uri" | "KeyError"
  url,            \* the built descriptor's credentials and do_connect listeners
  credCache,      \* lru_cache(maxsize=1) of get_credential: 0 (empty) or a handle
  nHandles,       \* DefaultAzureCredential objects constructed so far
  tokenCache,     \* per handle: the token the issuer caches (0: none)
  tokens,         \* tokens issued by the identity provider, by serial number
  expired,        \* serial numbers of the tokens that have expired
  fetches,        \* network fetches made to the identity provider
  pc,             \* per thread: position in the code ("idle": outside the pool)
  hnd,            \* per thread: the handle get_credential() returned (0: none)
  conns,          \* physical connection attempts, in order of creation
  metric,         \* the collection's distance metric: "l2" | "cosine" | "inner"
  rows,           \* the collection: the set of stored document rows
  ret,            \* what the last vector-store call returned or raised
  pending,        \* per caller: the rows of its add_documents not yet written
  applied,        \* per id: the write the storage engine applied last
  raced           \* a row was overwritten while another caller's add was under way

envVars == <<USE_ENTRA_AUTH, environ>>
issuerVars == <<credCache, nHandles, tokenCache, tokens, expired, fetches>>
authVars == <<envVars, connection, url, issuerVars, pc, hnd, conns>>

writerVars == <<pending, applied, raced>>

storeVars == <<metric, rows, ret, writerVars>>

vars == <<authVars, storeVars>>

\* ------------------------------------------------------------- JWT tokens
\* A token as the identity provider hands it out: the number of dot-separated
\* segments, the length of the middle segment (base64url without padding),
\* what the decoded bytes parse to, and the upn claim ("None": absent).
Principals == {"alice", "bob"}

\* The tokens the identity provider issues to the pool's connections.
TokenShapes ==
  { [nseg |-> 3, plen |-> 18, json |-> "object", upn |-> "alice"],
    [nseg |-> 3, plen |-> 16, json |-> "object", upn |-> "bob"],
    [nseg |-> 3, plen |-> 15, json |-> "object", upn |-> ""],
    [nseg |-> 3, plen |-> 11, json |-> "object", upn |-> "None"],
    [nseg |-> 3, plen |-> 5,  json |-> "object", upn |-> "alice"] }

paddingByRemainder(plen) == plen % 4

\* padding = "=" * (4 - len(payload) % 4)
padding(plen) == 4 - (plen % 4)

\* len(payload + padding)
PaddedLen(plen) == plen + padding(plen)

\* base64.urlsafe_b64decode(payload + padding): the padded length must be a
\* multiple of 4 (surplus "=" is ignored) and the number of data characters
\* cannot be 1 more than a multiple of 4.
b64decodable(plen) == PaddedLen(plen) % 4 = 0 /\ plen % 4 # 1

\* decode_jwt(token): the decoded payload, or the exception raised.
decode_jwt(tok) ==
  IF tok.nseg < 2 THEN [exc |-> "IndexError", json |-> "bad", upn |-> "None"]
  ELSE IF ~b64decodable(tok.plen)
    THEN [exc |-> "binascii.Error", json |-> "bad", upn |-> "None"]
  ELSE IF tok.json = "bad"
    THEN [exc |-> "JSONDecodeError", json |-> "bad", upn |-> "None"]
  ELSE [exc |-> "", json |-> tok.json, upn |-> tok.upn]

\* What a call of get_token_and_username() gives its caller.
\* got: the serial number of the token get_token() returned (0: it raised).
NoResult == [kind |-> "none", exc |-> "", user |-> "", token |-> 0, got |-> 0]
Raised(e, k) == [kind |-> "raise", exc |-> e, user |-> "", token |-> 0, got |-> k]
Returned(u, k) == [kind |-> "return", exc |-> "", user |-> u, token |-> k, got |-> k]

TruthyIsNotNone(username) == username # "None"

\* bool(username): None and "" are falsy.
Truthy(username) == username # "None" /\ username # ""

\* get_token_and_username() from the point where get_token() has returned
\* token number k, of shape tok: decode, read the upn claim, check it, return
\* the pair.
UsernameAndToken(tok, k) ==
  LET claims == decode_jwt(tok) IN
  IF claims.exc # "" THEN Raised(claims.exc, k)
  ELSE IF claims.json # "object" THEN Raised("AttributeError", k)
  ELSE IF ~Truthy(claims.upn) THEN Raised("ValueError", k)
  ELSE Returned(claims.upn, k)

\* The spec's error taxonomy for the exceptions get_token_and_username() lets out.
ErrorKind(exc) ==
  IF exc = "ClientAuthenticationError" THEN "AuthResolutionError"
  ELSE "ClaimMissingError"

\* ------------------------------------------------------- connection set-up

EnvironGet(names) == TRUE

\* os.environ[name] raises KeyError when name is not set.
Subscript(names) == names \subseteq environ

\* The password of the URI: the value of DBPASSWORD (0: blank; positive
\* numbers are tokens' serial numbers).
StaticPassword == -1

\* A descriptor's host, port, database and sslmode are "" when it has none,
\* the name of the environment variable whose value it holds, or, for the
\* port, the default.
\* Nothing built: no credentials, no listener.
NoUrl == [username |-> "", password |-> 0, listeners |-> 0,
          host |-> "", port |-> "", database |-> "", sslmode |-> ""]

\* port=os.environ.get("DBPORT", 5432)
Port == IF "DBPORT" \in environ THEN "DBPORT" ELSE "5432"

\* URL.create(username="", password="", host=..., port=..., database=...)
\* and the do_connect listener registered on the engine.
EngineUrl == [username |-> "", password |-> 0, listeners |-> 1,
              host |-> "DBHOST", port |-> Port, database |-> "DBNAME",
              sslmode |-> ""]

UriUrlWithListener ==
  [username |-> "DBUSER", password |-> StaticPassword, listeners |-> 1,
   host |-> "DBHOST", port |-> "", database |-> "DBNAME",
   sslmode |-> "SSLMODE"]

\* The URI "postgresql+psycopg://{dbuser}:{password}@{dbhost}/{dbname}
\* ?sslmode={sslmode}" with quote(DBUSER) and DBPASSWORD in it; no engine is
\* created here and no listener registered.
UriUrl == [username |-> "DBUSER", password |-> StaticPassword, listeners |-> 0,
           host |-> "DBHOST", port |-> "", database |-> "DBNAME",
           sslmode |-> "SSLMODE"]

\* connection = create_postgres_engine() if USE_ENTRA_AUTH else ...
create_postgres_engine ==
  /\ connection = "unbuilt"
  /\ USE_ENTRA_AUTH
  /\ connection' = IF Subscript(TokenModeRequired) THEN "engine" ELSE "KeyError"
  /\ url' = IF Subscript(TokenModeRequired) THEN EngineUrl ELSE url
  /\ UNCHANGED <<storeVars, envVars, issuerVars, pc, hnd, conns>>

get_connection_uri ==
  /\ connection = "unbuilt"
  /\ ~USE_ENTRA_AUTH
  /\ connection' = IF Subscript(StaticModeRequired) THEN "uri" ELSE "KeyError"
  /\ url' = IF Subscript(StaticModeRequired) THEN UriUrl ELSE url
  /\ UNCHANGED <<storeVars, envVars, issuerVars, pc, hnd, conns>>

\* ------------------------------------------------------ the connection pool
\* A physical connection attempt: cparams' user and password (0: blank, a
\* token's serial number, or StaticPassword), how often the do_connect hook
\* ran for it, whether the pool handed it out again, how often the hook's
\* call of get_token_and_username() called get_token() and with which scope,
\* what the call gave, and whether the password was an unexpired token at the
\* moment the connection was opened.
NewAttempt(t, hooks) ==
  [status |-> "connecting", holder |-> t, hooks |-> hooks, reused |-> FALSE,
   user |-> "", password |-> 0, asks |-> 0, scope |-> "", res |-> NoResult,
   validAtOpen |-> FALSE]

IdleConns == {c \in DOMAIN conns : conns[c].status = "open" /\ conns[c].holder = 0}

\* The attempt thread t is opening or holds.
Mine(t) == CHOOSE c \in DOMAIN conns :
             conns[c].holder = t /\ conns[c].status \in {"connecting", "open"}

HookFiresOnFirstConnect(c) == c = 1

\* event.listens_for(engine, "do_connect"): the listener runs for every new
\* physical connection the engine's dialect is about to open.
HookFires(c) == TRUE

\* The pool hands thread t an idle connection; no connect event.
Reuse(t) ==
  /\ pc[t] = "idle"
  /\ connection \in {"engine", "uri"}
  /\ \E c \in IdleConns :
       conns' = [conns EXCEPT ![c].holder = t, ![c].reused = TRUE]
  /\ pc' = [pc EXCEPT ![t] = "busy"]
  /\ UNCHANGED <<storeVars, envVars, connection, url, issuerVars, hnd>>

\* No idle connection: the pool opens a new physical connection for thread t.
\* A do_connect listener runs first; without one the descriptor's credentials
\* are used.
Connect(t) ==
  /\ pc[t] = "idle"
  /\ connection \in {"engine", "uri"}
  /\ IdleConns = {}
  /\ Len(conns) < MaxConns
  /\ LET c == Len(conns) + 1 IN
       IF url.listeners > 0 /\ HookFires(c)
         THEN /\ conns' = Append(conns, NewAttempt(t, 1))
              /\ pc' = [pc EXCEPT ![t] = "get_credential"]
         ELSE /\ conns' = Append(conns, [NewAttempt(t, 0) EXCEPT
                            !.status = "open", !.user = url.username,
                            !.password = url.password])
              /\ pc' = [pc EXCEPT ![t] = "busy"]
  /\ UNCHANGED <<storeVars, envVars, connection, url, issuerVars, hnd>>

\* Thread t gives its connection back to the pool.
Release(t) ==
  /\ pc[t] = "busy"
  /\ conns' = [conns EXCEPT ![Mine(t)].holder = 0]
  /\ pc' = [pc EXCEPT ![t] = "idle"]
  /\ UNCHANGED <<storeVars, envVars, connection, url, issuerVars, hnd>>

\* The storage engine terminates an idle connection.
Terminate(c) ==
  /\ c \in IdleConns
  /\ conns' = [conns EXCEPT ![c].status = "closed"]
  /\ UNCHANGED <<storeVars, envVars, connection, url, issuerVars, pc, hnd>>

\* ------------------------------------------------- credential resolution
\* get_credential(): the lru_cache lookup. A hit returns the cached handle; a
\* miss calls the wrapped function, with no lock held during the call.
get_credential(t) ==
  /\ pc[t] = "get_credential"
  /\ IF credCache # 0
       THEN /\ hnd' = [hnd EXCEPT ![t] = credCache]
            /\ pc' = [pc EXCEPT ![t] = "get_token"]
       ELSE /\ hnd' = hnd
            /\ pc' = [pc EXCEPT ![t] = "DefaultAzureCredential"]
  /\ UNCHANGED <<storeVars, envVars, connection, url, issuerVars, conns>>

\* The wrapped function returns a new DefaultAzureCredential; lru_cache stores
\* it unless the key was added meanwhile, and returns the computed object.
DefaultAzureCredential(t) ==
  /\ pc[t] = "DefaultAzureCredential"
  /\ nHandles < MaxHandles
  /\ nHandles' = nHandles + 1
  /\ credCache' = IF credCache = 0 THEN nHandles + 1 ELSE credCache
  /\ hnd' = [hnd EXCEPT ![t] = nHandles + 1]
  /\ pc' = [pc EXCEPT ![t] = "get_token"]
  /\ UNCHANGED <<storeVars, envVars, connection, url, tokenCache, tokens, expired, fetches, conns>>

\* The issuer returns its cached token when it has one that has not expired.
IssuerCached(h) == tokenCache[h] # 0 /\ tokenCache[h] \notin expired

SetCparamsShared(cs, c, username, token) ==
  [i \in DOMAIN cs |-> [cs[i] EXCEPT !.user = username, !.password = token]]

SetCparamsUserKept(cs, c, username, token) ==
  [cs EXCEPT ![c].user = IF c > 1 /\ cs[1].user # "" THEN cs[1].user
                         ELSE username,
             ![c].password = token]

\* cparams["user"] = username; cparams["password"] = token, on the attempt
\* the event was fired for.
SetCparams(cs, c, username, token) ==
  [cs EXCEPT ![c].user = username, ![c].password = token]

HookCredentialsKept(c, r) ==
  IF c > 1 /\ conns[1].res.kind = "return" THEN conns[1].res ELSE r

\* The (username, token) the listener writes: those its own call returned.
HookCredentials(c, r) == r

OpenedBlank(cs, c, r) ==
  [cs EXCEPT ![c].status = "open", ![c].res = r]

\* get_token_and_username() raised in the listener: the two assignments to
\* cparams are not reached, the exception leaves the listener and the pool's
\* connect, and the attempt ends without a connection.
Propagate(cs, c, r) ==
  [cs EXCEPT ![c].status = "failed", ![c].res = r, ![c].holder = 0]

\* provide_dynamic_credentials from the return of get_token(), for attempt c
\* of thread t: get_token_and_username() returns or raises; on return the
\* parameters are overridden and the dialect opens the connection with them;
\* an exception propagates to the caller of the pool. The call's locals end.
provide_dynamic_credentials(t, r, cs) ==
  LET c == Mine(t)
      cred == HookCredentials(c, r)
  IN IF r.kind = "raise"
       THEN /\ conns' = Propagate(cs, c, r)
            /\ pc' = [pc EXCEPT ![t] = "idle"]
            /\ hnd' = [hnd EXCEPT ![t] = 0]
       ELSE /\ conns' = [SetCparams(cs, c, cred.user, cred.token) EXCEPT
                           ![c].status = "open", ![c].res = r,
                           ![c].validAtOpen = cred.token \in DOMAIN tokens' \ expired]
            /\ pc' = [pc EXCEPT ![t] = "busy"]
            /\ hnd' = [hnd EXCEPT ![t] = 0]

\* The scope get_token() is called with.
Audience == "https://ossrdbms-aad.database.windows.net/.default"

AskIssuerAgain(cs, c) ==
  [cs EXCEPT ![c].asks = IF c > 1 THEN @ + 2 ELSE @ + 1, ![c].scope = Audience]

\* One call of get_token(scope) by the call made for attempt c.
AskIssuer(cs, c) == [cs EXCEPT ![c].asks = @ + 1, ![c].scope = Audience]

\* get_credential().get_token(audience): the issuer looks in its cache.
get_token(t) ==
  /\ pc[t] = "get_token"
  /\ UNCHANGED <<storeVars, envVars, connection, url, issuerVars>>
  /\ IF IssuerCached(hnd[t])
       THEN provide_dynamic_credentials(t,
              UsernameAndToken(tokens[tokenCache[hnd[t]]], tokenCache[hnd[t]]),
              AskIssuer(conns, Mine(t)))
       ELSE /\ pc' = [pc EXCEPT ![t] = "fetch"]
            /\ conns' = AskIssuer(conns, Mine(t))
            /\ UNCHANGED hnd

\* The issuer's request to the identity provider ends: with an error, or with
\* a new token, which the issuer caches and returns.
fetch(t) ==
  /\ pc[t] = "fetch"
  /\ fetches < MaxFetches
  /\ fetches' = fetches + 1
  /\ \/ /\ UNCHANGED <<tokens, tokenCache>>
        /\ provide_dynamic_credentials(t, Raised("ClientAuthenticationError", 0),
                                       conns)
     \/ /\ Len(tokens) < MaxTokens
        /\ tokenCache' = [tokenCache EXCEPT ![hnd[t]] = Len(tokens) + 1]
        /\ \E shape \in TokenShapes :
             /\ tokens' = Append(tokens, shape)
             /\ provide_dynamic_credentials(t,
                  UsernameAndToken(shape, Len(tokens) + 1), conns)
  /\ UNCHANGED <<storeVars, envVars, connection, url, credCache, nHandles, expired>>

\* A token reaches its expiry time.
Expire(k) ==
  /\ k \in DOMAIN tokens
  /\ k \notin expired
  /\ expired' = expired \cup {k}
  /\ UNCHANGED <<storeVars, envVars, connection, url, credCache, nHandles, tokenCache, tokens,
                 fetches, pc, hnd, conns>>

\* ------------------------------------------------------------- documents
\* JSON-like values of metadata and of the filter wire format, as tagged
\* variants.  k is the key under which a value sits in a mapping.
Val(t, n, s, xs) == [t |-> t, k |-> "", n |-> n, s |-> s, xs |-> xs]

None == Val("none", 0, "", <<>>)

Num(n) == Val("int", n, "", <<>>)

Text(s) == Val("str", 0, s, <<>>)

ListOf(xs) == Val("list", 0, "", xs)

DictOf(xs) == Val("dict", 0, "", xs)

Entry(key, v) == [v EXCEPT !.k = key]

Value(e) == [e EXCEPT !.k = ""]

Keys(d) == {d.xs[i].k : i \in DOMAIN d.xs}

Get(d, key) == Value(d.xs[CHOOSE i \in DOMAIN d.xs : d.xs[i].k = key])

Ids == 1..MaxId

MaxK == MaxId

Metrics == {"l2", "cosine", "inner"}

Queries == {"kitty", "ducks"}

Meta(i, location) ==
  DictOf(<<Entry("id", Num(i)), Entry("location", Text(location))>>)

Documents ==
  { [page_content |-> "cats",  metadata |-> Meta(1, "pond")],
    [page_content |-> "ducks", metadata |-> Meta(1, "pond")],
    [page_content |-> "ducks", metadata |-> Meta(2, "market")] }

Elems == [doc : Documents, id : Ids]

\* add_documents(docs, ids=[...]) with one document, or with two different
\* documents under two ids.
Batches ==
  {<<e>> : e \in Elems}
    \cup {b \in Elems \X Elems : b[1].id < b[2].id /\ b[1].doc # b[2].doc}

\* delete(ids=[...]) with one or two ids.
IdLists == {<<i>> : i \in Ids} \cup {l \in Ids \X Ids : l[1] < l[2]}

\* k of a search: one document, or as many as there are ids.
Ks == {1, MaxK}

\* The external Embedder: a fixed text -> vector map (non-negative
\* components, no zero vector).
embed(text) ==
  CASE text = "cats"  -> <<4, 0>>
    [] text = "ducks" -> <<1, 1>>
    [] text = "kitty" -> <<1, 0>>

\* ---------------------------------------------------------- FilterCompiler
Comparators == {"$eq", "$ne", "$lt", "$lte", "$gt", "$gte"}

SetOperators == {"$in", "$nin"}

TextOperators == {"$like", "$ilike"}

LeafOperators ==
  Comparators \cup SetOperators \cup TextOperators \cup {"$between"}

LogicalOperators == {"$and", "$or"}

\* Keys that carry the operator sigil ("$foo" stands for any unknown one).
Sigil(key) == key \in LeafOperators \cup LogicalOperators \cup {"$foo"}

IsScalar(v) == v.t \in {"int", "str"}

\* A leaf's value type must be compatible with its operator.
Compatible(op, v) ==
  CASE op \in {"$eq", "$ne"} -> v.t \in {"int", "str", "list"}
    [] op \in {"$lt", "$lte", "$gt", "$gte"} -> IsScalar(v)
    [] op \in SetOperators ->
         v.t = "list" /\ \A i \in DOMAIN v.xs : IsScalar(v.xs[i])
    [] op = "$between" ->
         v.t = "list" /\ Len(v.xs) = 2 /\ \A i \in DOMAIN v.xs : IsScalar(v.xs[i])
    [] op \in TextOperators -> v.t = "str"

\* Predicates handed to the storage engine.
Leaf(op, field, value) ==
  [op |-> op, field |-> field, value |-> value, args |-> <<>>]

Node(op, args) == [op |-> op, field |-> "", value |-> None, args |-> args]

Invalid == Node("InvalidFilterError", <<>>)

MatchAll == Node("$and", <<>>)

Join(op, args) ==
  IF \E i \in DOMAIN args : args[i] = Invalid THEN Invalid
  ELSE IF Len(args) = 1 THEN args[1]
  ELSE Node(op, args)

\* The logical operator a bare mapping of several fields stands for.
ImplicitOpOr == "$or"

ImplicitOp == "$and"

\* One field of a mapping: {field: {operator: operand}} is a leaf with that
\* operator, {field: value} is an equality leaf.  A mapping that is a leaf's
\* value is data: it is never read as a nested filter.
handle_field_filter(field, value) ==
  IF Sigil(field) THEN Invalid
  ELSE IF value.t = "dict"
    THEN IF /\ Len(value.xs) = 1
            /\ value.xs[1].k \in LeafOperators
            /\ Compatible(value.xs[1].k, Value(value.xs[1]))
           THEN Leaf(value.xs[1].k, field, Value(value.xs[1]))
           ELSE Invalid
  ELSE IF value.t \in {"int", "str", "list"}
    THEN Leaf("$eq", field, value)
  ELSE Invalid

RECURSIVE compile(_)
compile(expr) ==
  IF expr.t # "dict" \/ expr.xs = <<>> THEN Invalid
  ELSE IF Len(expr.xs) = 1 /\ expr.xs[1].k \in LogicalOperators
    THEN LET children == Value(expr.xs[1])
         IN  IF children.t # "list" \/ children.xs = <<>> THEN Invalid
             ELSE Join(expr.xs[1].k,
                       [i \in DOMAIN children.xs |-> compile(children.xs[i])])
  ELSE IF \E i \in DOMAIN expr.xs : Sigil(expr.xs[i].k) THEN Invalid
  ELSE Join(ImplicitOp,
            [i \in DOMAIN expr.xs |->
               handle_field_filter(expr.xs[i].k, Value(expr.xs[i]))])

\* Comparison of a stored metadata value x with a leaf's operand v; the
\* stored type is preserved (a stored number never equals a query string).
\* Ordering comparisons are modelled on numbers, patterns as "%" or a
\* literal.
Compare(op, x, v) ==
  CASE op = "$eq"  -> x = v
    [] op = "$ne"  -> x # v
    [] op = "$lt"  -> x.t = "int" /\ v.t = "int" /\ x.n < v.n
    [] op = "$lte" -> x.t = "int" /\ v.t = "int" /\ x.n <= v.n
    [] op = "$gt"  -> x.t = "int" /\ v.t = "int" /\ x.n > v.n
    [] op = "$gte" -> x.t = "int" /\ v.t = "int" /\ x.n >= v.n
    [] op = "$in"  -> \E i \in DOMAIN v.xs : v.xs[i] = x
    [] op = "$nin" -> \A i \in DOMAIN v.xs : v.xs[i] # x
    [] op = "$between" ->
         /\ x.t = "int" /\ v.xs[1].t = "int" /\ v.xs[2].t = "int"
         /\ v.xs[1].n <= x.n /\ x.n <= v.xs[2].n
    [] op \in TextOperators -> x.t = "str" /\ (v.s = "%" \/ x.s = v.s)

RECURSIVE Eval(_, _)
Eval(p, md) ==
  CASE p.op = "$and" -> \A i \in DOMAIN p.args : Eval(p.args[i], md)
    [] p.op = "$or"  -> \E i \in DOMAIN p.args : Eval(p.args[i], md)
    [] OTHER -> p.field \in Keys(md) /\ Compare(p.op, Get(md, p.field), p.value)

\* The filters the search cells pass.
Op(operator, operand) == DictOf(<<Entry(operator, operand)>>)

Field(field, value) == DictOf(<<Entry(field, value)>>)

AllOf(children) == DictOf(<<Entry("$and", ListOf(children))>>)

AnyOf(children) == DictOf(<<Entry("$or", ListOf(children))>>)

IdIn == Op("$in", ListOf(<<Num(1)>>))

LocationIn == Op("$in", ListOf(<<Text("pond"), Text("market")>>))

IdRange == DictOf(<<Entry("$gte", Num(1)), Entry("$lte", Num(2))>>)

BareFilters ==
  { DictOf(<<Entry("id", IdIn), Entry("location", LocationIn)>>),
    DictOf(<<Entry("id", Num(1)), Entry("location", Text("pond"))>>),
    DictOf(<<Entry("location", Text("market")),
             Entry("id", Op("$between", ListOf(<<Num(1), Num(2)>>)))>>),
    DictOf(<<Entry("id", IdRange), Entry("location", Text("pond"))>>) }

ExplicitFilters ==
  { Field("id", IdIn),
    AllOf(<<Field("id", IdIn), Field("location", LocationIn)>>),
    AllOf(<<Field("id", Op("$eq", Num(1))),
          Field("location", Op("$eq", Text("pond")))>>),
    AnyOf(<<Field("id", Op("$lt", Num(2))),
          Field("location", Op("$eq", Text("market")))>>),
    Field("id", Text("1")),
    Field("id", Op("$foo", Num(1))),
    AllOf(<<>>),
    AllOf(<<Field("id", IdIn), AnyOf(<<>>)>>) }

Filters == {None} \cup BareFilters \cup ExplicitFilters

\* ------------------------------------------------------------ VectorStore
Row(e) ==
  [id |-> e.id, content |-> e.doc.page_content, metadata |-> e.doc.metadata,
   embedding |-> embed(e.doc.page_content)]

Doc(r) == [id |-> r.id, page_content |-> r.content, metadata |-> r.metadata]

StoredIds(S) == {r.id : r \in S}

Range(s) == {s[i] : i \in DOMAIN s}

Insert(S, e) == S \cup {Row(e)}

UpsertContent(S, e) ==
  IF e.id \in StoredIds(S)
    THEN {IF r.id = e.id THEN [r EXCEPT !.content = e.doc.page_content] ELSE r :
            r \in S}
    ELSE S \cup {Row(e)}

\* The id is the upsert key: a row with that id is overwritten.
Upsert(S, e) == {r \in S : r.id # e.id} \cup {Row(e)}

RECURSIVE UpsertAll(_, _)
UpsertAll(S, batch) ==
  IF batch = <<>> THEN S
  ELSE UpsertAll(Upsert(S, Head(batch)), Tail(batch))

DeleteErrorIfAbsent(S, ids) ==
  IF Range(ids) \subseteq StoredIds(S) THEN "" ELSE "PersistenceError"

DeleteError(S, ids) == ""

Dot(a, b) == a[1] * b[1] + a[2] * b[2]

Diff(a, b) == <<a[1] - b[1], a[2] - b[2]>>

\* e1 is strictly nearer to q than e2 under metric m.  Cosine similarities
\* of vectors with non-negative dot products are compared by cross
\* multiplication of their squares.
Closer(m, e1, e2, q) ==
  CASE m = "l2" -> Dot(Diff(e1, q), Diff(e1, q)) < Dot(Diff(e2, q), Diff(e2, q))
    [] m = "inner" -> Dot(e1, q) > Dot(e2, q)
    [] m = "cosine" ->
         Dot(e1, q) * Dot(e1, q) * Dot(e2, e2)
           > Dot(e2, q) * Dot(e2, q) * Dot(e1, e1)

OrderByFarthest(m, q, r, s) ==
  \/ Closer(m, s.embedding, r.embedding, q)
  \/ ~Closer(m, r.embedding, s.embedding, q) /\ r.id <= s.id

\* ORDER BY distance, ties by id.
OrderBy(m, q, r, s) ==
  \/ Closer(m, r.embedding, s.embedding, q)
  \/ ~Closer(m, s.embedding, r.embedding, q) /\ r.id <= s.id

RECURSIVE TopK(_, _, _, _)
TopK(S, m, q, k) ==
  IF k = 0 \/ S = {} THEN <<>>
  ELSE LET best == CHOOSE r \in S : \A o \in S : OrderBy(m, q, r, o)
       IN  <<best>> \o TopK(S \ {best}, m, q, k - 1)

PredicateOrMatchAll(filter) ==
  IF filter = None \/ compile(filter) = Invalid THEN MatchAll ELSE compile(filter)

\* The predicate of a search: the compiled filter when one is passed.
Predicate(filter) == IF filter = None THEN MatchAll ELSE compile(filter)

Search(S, m, query, k, filter) ==
  LET p == Predicate(filter)
      nearest == TopK({r \in S : Eval(p, r.metadata)}, m, embed(query), k)
  IN  IF p = Invalid
        THEN [err |-> "InvalidFilterError", out |-> <<>>]
        ELSE [err |-> "", out |-> [i \in DOMAIN nearest |-> Doc(nearest[i])]]

NoCall ==
  [op |-> "none", before |-> {}, batch |-> <<>>, ids |-> <<>>, query |-> "",
   k |-> 0, filter |-> None, lambda_mult |-> 0, err |-> "", out |-> <<>>,
   scores |-> <<>>]

add_documents(batch) ==
  /\ rows' = UpsertAll(rows, batch)
  /\ ret' = [NoCall EXCEPT !.op = "add", !.before = rows, !.batch = batch,
                           !.ids = [i \in DOMAIN batch |-> batch[i].id]]
  /\ UNCHANGED <<authVars, writerVars, metric>>

delete(ids) ==
  /\ rows' = IF DeleteError(rows, ids) = ""
               THEN {r \in rows : r.id \notin Range(ids)}
               ELSE rows
  /\ ret' = [NoCall EXCEPT !.op = "delete", !.before = rows, !.ids = ids,
                           !.err = DeleteError(rows, ids)]
  /\ UNCHANGED <<authVars, writerVars, metric>>

similarity_search_filtering(query, k, filter) ==
  /\ LET found == Search(rows, metric, query, k, filter)
     IN  ret' = [NoCall EXCEPT !.op = "search", !.before = rows,
                              !.query = query, !.k = k, !.filter = filter,
                              !.err = found.err, !.out = found.out]
  /\ rows' = IF Predicate(filter) = Invalid THEN rows
             ELSE {r \in rows : Eval(Predicate(filter), r.metadata)}
  /\ UNCHANGED <<authVars, writerVars, metric>>

similarity_search(query, k, filter) ==
  /\ LET found == Search(rows, metric, query, k, filter)
     IN  ret' = [NoCall EXCEPT !.op = "search", !.before = rows,
                              !.query = query, !.k = k, !.filter = filter,
                              !.err = found.err, !.out = found.out]
  /\ UNCHANGED <<authVars, writerVars, metric, rows>>

\* ------------------------------------------------------ concurrent writers
\* Two callers of add_documents on the same collection.
Callers == {1, 2}

NoElem == [doc |-> [page_content |-> "", metadata |-> None], id |-> 0]

NoWrites ==
  /\ pending = [c \in Callers |-> <<>>]
  /\ applied = [x \in Ids |-> NoElem]
  /\ raced = FALSE

\* Caller c calls add_documents(docs, ids): the rows go to the storage engine
\* one by one.
add_documents_begin(c, batch) ==
  /\ pending[c] = <<>>
  /\ pending' = [pending EXCEPT ![c] = batch]
  /\ UNCHANGED <<authVars, metric, rows, ret, applied, raced>>

\* The storage engine applies the next row of caller c's call: one upsert.
upsert_row(c) ==
  /\ pending[c] # <<>>
  /\ LET e == Head(pending[c]) IN
       /\ rows' = Upsert(rows, e)
       /\ applied' = [applied EXCEPT ![e.id] = e]
       /\ raced' = (raced \/ (/\ applied[e.id] # NoElem
                              /\ applied[e.id].doc # e.doc
                              /\ \E d \in Callers \ {c} : pending[d] # <<>>))
  /\ pending' = [pending EXCEPT ![c] = Tail(@)]
  /\ UNCHANGED <<authVars, metric, ret>>

\* --------------------------------------------------------------- Retriever
\* lambda_mult in halves: 0 (diversity only), 1 (0.5), 2 (relevance only).
Lambdas == {0, 1, 2}

\* The similarity of two vectors under metric m, larger is more alike
\* (cosine: the squared cosine in hundredths).
Similarity(m, a, b) ==
  CASE m = "l2" -> 0 - Dot(Diff(a, b), Diff(a, b))
    [] m = "inner" -> Dot(a, b)
    [] m = "cosine" -> (100 * Dot(a, b) * Dot(a, b)) \div (Dot(a, a) * Dot(b, b))

Largest(S) == CHOOSE x \in S : \A y \in S : x >= y

RedundancyWithBest(m, pool, chosen, i) ==
  Largest({Similarity(m, pool[i].embedding, pool[j].embedding) :
             j \in chosen \cup {1}})

\* How alike candidate i is to the nearest of the results chosen so far.
Redundancy(m, pool, chosen, i) ==
  IF chosen = {} THEN 0
  ELSE Largest({Similarity(m, pool[i].embedding, pool[j].embedding) :
                  j \in chosen})

\* The trade-off between relevance to the query and redundancy.
MmrScore(m, q, lam, pool, chosen, i) ==
  lam * Similarity(m, pool[i].embedding, q)
    - (2 - lam) * Redundancy(m, pool, chosen, i)

\* Greedy selection over the candidate pool, which is in relevance order:
\* the best trade-off next, ties by the original relevance rank.
RECURSIVE Select(_, _, _, _, _, _)
Select(m, q, lam, pool, picked, k) ==
  LET chosen == Range(picked)
      rest == DOMAIN pool \ chosen
  IN  IF Len(picked) = k \/ rest = {} THEN picked
      ELSE LET next == CHOOSE i \in rest : \A j \in rest :
                         \/ MmrScore(m, q, lam, pool, chosen, i)
                              > MmrScore(m, q, lam, pool, chosen, j)
                         \/ /\ MmrScore(m, q, lam, pool, chosen, i)
                                 = MmrScore(m, q, lam, pool, chosen, j)
                            /\ i <= j
           IN  Select(m, q, lam, pool, Append(picked, next), k)

\* max_marginal_relevance_search: over-fetch fetch_k candidates by plain
\* similarity, then select k of them.
MMR(S, m, query, k, fetch_k, lam) ==
  LET pool == TopK(S, m, embed(query), fetch_k)
      picked == Select(m, embed(query), lam, pool, <<>>, k)
  IN  [i \in DOMAIN picked |-> Doc(pool[picked[i]])]

\* retriever.invoke(query) of as_retriever(search_type="mmr").
invoke(query, k, lam) ==
  /\ ret' = [NoCall EXCEPT !.op = "mmr", !.before = rows, !.query = query,
                           !.k = k, !.lambda_mult = lam,
                           !.out = MMR(rows, metric, query, k, MaxK, lam)]
  /\ UNCHANGED <<authVars, writerVars, metric, rows>>

\* The raw distance of a stored vector from the query's.
Score(m, e, q) == 0 - Similarity(m, e, q)

\* similarity_search_with_score(query, k): the same retrieval, with each
\* document's distance.
similarity_search_with_score(query, k) ==
  /\ LET nearest == TopK(rows, metric, embed(query), k)
     IN  ret' = [NoCall EXCEPT
                   !.op = "search_with_score", !.before = rows,
                   !.query = query, !.k = k,
                   !.out = [i \in DOMAIN nearest |-> Doc(nearest[i])],
                   !.scores = [i \in DOMAIN nearest |->
                                 Score(metric, nearest[i].embedding, embed(query))]]
  /\ UNCHANGED <<authVars, writerVars, metric, rows>>

\* ------------------------------------------------------------ specification
Init ==
  /\ USE_ENTRA_AUTH \in BOOLEAN
  /\ environ \in Environments(USE_ENTRA_AUTH)
  /\ connection = "unbuilt"
  /\ url = NoUrl
  /\ credCache = 0
  /\ nHandles = 0
  /\ tokenCache = [h \in 1..MaxHandles |-> 0]
  /\ tokens = <<>>
  /\ expired = {}
  /\ fetches = 0
  /\ pc = [t \in Threads |-> "idle"]
  /\ hnd = [t \in Threads |-> 0]
  /\ conns = <<>>
  /\ metric = "cosine"
  /\ rows = {}
  /\ ret = NoCall
  /\ NoWrites

Next ==
  \/ create_postgres_engine
  \/ get_connection_uri
  \/ \E t \in Threads : Reuse(t)
  \/ \E t \in Threads : Connect(t)
  \/ \E t \in Threads : Release(t)
  \/ \E c \in DOMAIN conns : Terminate(c)
  \/ \E t \in Threads : get_credential(t)
  \/ \E t \in Threads : DefaultAzureCredential(t)
  \/ \E t \in Threads : get_token(t)
  \/ \E t \in Threads : fetch(t)
  \/ \E k \in DOMAIN tokens : Expire(k)

Spec == Init /\ [][Next]_vars

\* A thread inside the hook goes on running: its own steps are taken when
\* they can be.  Nothing in the code bounds the wait for the identity
\* provider's answer (get_token() is called without a timeout and no other
\* thread watches the call), so the end of a fetch is left to the provider.
Fairness ==
  \A t \in Threads :
    /\ WF_vars(get_credential(t))
    /\ WF_vars(DefaultAzureCredential(t))
    /\ WF_vars(get_token(t))

SpecLive == Init /\ [][Next]_vars /\ Fairness

\* The store of the notebook's collection, driven over a built connection.
InitStore ==
  /\ USE_ENTRA_AUTH = TRUE
  /\ environ = CellSets(TRUE)
  /\ connection = "unbuilt"
  /\ url = NoUrl
  /\ credCache = 0
  /\ nHandles = 0
  /\ tokenCache = [h \in 1..MaxHandles |-> 0]
  /\ tokens = <<>>
  /\ expired = {}
  /\ fetches = 0
  /\ pc = [t \in Threads |-> "idle"]
  /\ hnd = [t \in Threads |-> 0]
  /\ conns = <<>>
  /\ metric \in Metrics
  /\ rows = {}
  /\ ret = NoCall
  /\ NoWrites

NextStore ==
  \/ \E batch \in Batches : add_documents(batch)
  \/ \E ids \in IdLists : delete(ids)
  \/ \E query \in Queries, k \in Ks, filter \in Filters :
       similarity_search(query, k, filter)
  \/ \E query \in Queries, k \in Ks : similarity_search_with_score(query, k)
  \/ \E query \in Queries, k \in Ks, lam \in Lambdas : invoke(query, k, lam)

SpecStore == InitStore /\ [][NextStore]_vars

\* The connection built in any environment: every choice of the flag and of
\* the variables that are set.
InitConfig ==
  /\ USE_ENTRA_AUTH \in BOOLEAN
  /\ environ \in SUBSET EnvVars
  /\ connection = "unbuilt"
  /\ url = NoUrl
  /\ credCache = 0
  /\ nHandles = 0
  /\ tokenCache = [h \in 1..MaxHandles |-> 0]
  /\ tokens = <<>>
  /\ expired = {}
  /\ fetches = 0
  /\ pc = [t \in Threads |-> "idle"]
  /\ hnd = [t \in Threads |-> 0]
  /\ conns = <<>>
  /\ metric = "cosine"
  /\ rows = {}
  /\ ret = NoCall
  /\ NoWrites

NextConfig ==
  \/ create_postgres_engine
  \/ get_connection_uri

SpecConfig == InitConfig /\ [][NextConfig]_vars

\* Callers writing to the collection at the same time.
InitWriters ==
  /\ USE_ENTRA_AUTH = TRUE
  /\ environ = CellSets(TRUE)
  /\ connection = "unbuilt"
  /\ url = NoUrl
  /\ credCache = 0
  /\ nHandles = 0
  /\ tokenCache = [h \in 1..MaxHandles |-> 0]
  /\ tokens = <<>>
  /\ expired = {}
  /\ fetches = 0
  /\ pc = [t \in Threads |-> "idle"]
  /\ hnd = [t \in Threads |-> 0]
  /\ conns = <<>>
  /\ metric = "cosine"
  /\ rows = {}
  /\ ret = NoCall
  /\ NoWrites

NextWriters ==
  \/ \E c \in Callers, batch \in Batches : add_documents_begin(c, batch)
  \/ \E c \in Callers : upsert_row(c)

SpecWriters == InitWriters /\ [][NextWriters]_vars

\* ------------------------------------------------------------------ claims
Opened(c) == conns[c].status \in {"open", "closed"}

\* C1: calls of resolve() made while no token has expired and no fetch has
\* failed cause at most one fetch to the identity provider, and all of them
\* return the same principal.
C1_SingleFetch ==
  (expired = {} /\ fetches = Len(tokens)) =>
    /\ fetches <= 1
    /\ \A c, d \in DOMAIN conns :
         (conns[c].res.kind = "return" /\ conns[d].res.kind = "return")
           => conns[c].res.user = conns[d].res.user

\* C2: in token mode the do_connect hook ran exactly once for every physical
\* connection attempt, however often the pool handed the connection out, and
\* an opened connection's user and password are the pair its hook's call of
\* get_token_and_username() returned.
C2_HookPerAttempt ==
  USE_ENTRA_AUTH =>
    \A c \in DOMAIN conns :
      /\ conns[c].hooks = 1
      /\ Opened(c) =>
           /\ conns[c].res.kind = "return"
           /\ conns[c].user = conns[c].res.user
           /\ conns[c].password = conns[c].res.token

C2_Witness ==
  /\ USE_ENTRA_AUTH
  /\ Len(conns) = 2
  /\ conns[1].status = "open" /\ conns[1].reused /\ conns[1].hooks = 1
  /\ conns[2].status = "open" /\ conns[2].hooks = 1

\* C3: in token mode every physical connection was opened with a password
\* that was a token unexpired at the moment of opening.
C3_UnexpiredAtOpen ==
  USE_ENTRA_AUTH => \A c \in DOMAIN conns : Opened(c) => conns[c].validAtOpen

C3_Witness ==
  /\ USE_ENTRA_AUTH
  /\ nHandles = 1
  /\ Len(conns) = 2
  /\ conns[1].status = "closed" /\ conns[1].password = 1 /\ 1 \in expired
  /\ conns[2].status = "open" /\ conns[2].password = 2 /\ conns[2].validAtOpen

\* C4: no step changes the user or password of a connection that has been
\* opened, and a step of credential resolution or a token expiry leaves the
\* status of every opened connection as it was.
C4_CredentialsFixed ==
  [][\A c \in DOMAIN conns :
       Opened(c) =>
         /\ c \in DOMAIN conns'
         /\ conns'[c].user = conns[c].user
         /\ conns'[c].password = conns[c].password
         /\ (issuerVars' # issuerVars \/ pc' # pc)
              => conns'[c].status = conns[c].status]_vars

C4_Witness ==
  \E c, d \in DOMAIN conns :
    /\ conns[c].status = "open" /\ conns[c].password \in expired
    /\ conns[d].status = "open" /\ conns[d].password \in DOMAIN tokens \ expired

\* C5: a finished call of get_token_and_username() either returned a pair
\* whose user is the non-empty upn claim of the returned token, or raised:
\* an AuthResolutionError when the issuer gave no token, a ClaimMissingError
\* when the token it gave cannot be decoded or has no non-empty upn claim.
C5_ResolveOutcome ==
  \A c \in DOMAIN conns :
    LET r == conns[c].res IN
      /\ r.kind = "return" =>
           /\ r.user \in Principals
           /\ r.token \in DOMAIN tokens
           /\ b64decodable(tokens[r.token].plen)
           /\ tokens[r.token].upn = r.user
      /\ r.kind = "raise" =>
           IF r.got = 0 THEN ErrorKind(r.exc) = "AuthResolutionError"
           ELSE /\ ErrorKind(r.exc) = "ClaimMissingError"
                /\ \/ ~b64decodable(tokens[r.got].plen)
                   \/ tokens[r.got].upn \notin Principals
      /\ (conns[c].hooks = 1 /\ conns[c].status # "connecting") => r.kind # "none"

C5_Witness ==
  \E c, d \in DOMAIN conns :
    /\ conns[c].res.exc = "ClientAuthenticationError"
    /\ conns[d].res.exc = "ValueError" /\ tokens[conns[d].res.got].upn = ""

\* C6: while a required variable is missing (DBHOST or DBNAME in either mode,
\* DBUSER or DBPASSWORD with USE_ENTRA_AUTH off) the connection is never
\* built, no fetch is made and no connection is attempted.
C6_FailFast ==
  LET required == IF USE_ENTRA_AUTH THEN {"DBHOST", "DBNAME"}
                  ELSE {"DBHOST", "DBNAME", "DBUSER", "DBPASSWORD"}
  IN ~(required \subseteq environ) =>
       /\ connection \in {"unbuilt", "KeyError"}
       /\ fetches = 0
       /\ conns = <<>>
       /\ \A t \in Threads : pc[t] = "idle"

C6_Witness ==
  /\ connection = "KeyError"
  /\ ~USE_ENTRA_AUTH
  /\ environ = CellSets(FALSE) \ {"DBPASSWORD"}

\* C7: the id is the upsert key.  The collection never holds two documents
\* with one id; after add_documents each id of the batch is stored exactly
\* once, with the content, metadata and embedding of the batch's last
\* document under that id; the collection grew only by the ids that were not
\* stored before (re-adding leaves its size unchanged); and an unfiltered
\* search over the whole collection returns that id once, with the latest
\* content.
Latest(batch, x) ==
  batch[CHOOSE i \in DOMAIN batch :
          batch[i].id = x /\ \A j \in DOMAIN batch : j > i => batch[j].id # x]

C7_UpsertById ==
  /\ \A r, s \in rows : r.id = s.id => r = s
  /\ ret.op = "add" =>
       /\ Cardinality(rows) =
            Cardinality(ret.before)
              + Cardinality(Range(ret.ids) \ StoredIds(ret.before))
       /\ \A x \in Range(ret.ids) :
            LET d == Latest(ret.batch, x).doc
            IN  /\ {r \in rows : r.id = x} =
                     {[id |-> x, content |-> d.page_content,
                       metadata |-> d.metadata,
                       embedding |-> embed(d.page_content)]}
                /\ \A q \in Queries :
                     LET found == Search(rows, metric, q, Cardinality(rows), None).out
                     IN  /\ Cardinality({i \in DOMAIN found : found[i].id = x}) = 1
                         /\ \A i \in DOMAIN found :
                              found[i].id = x =>
                                /\ found[i].page_content = d.page_content
                                /\ found[i].metadata = d.metadata

\* A document is re-added under an id that is stored with other content,
\* beside a second stored document.
C7_Witness ==
  /\ ret.op = "add"
  /\ Cardinality(rows) = 2
  /\ Cardinality(ret.before) = 2
  /\ \E i \in DOMAIN ret.batch : \E r \in ret.before :
       /\ r.id = ret.batch[i].id
       /\ r.content # ret.batch[i].doc.page_content

\* C8: delete never raises for an id that is not stored, and such an id
\* changes nothing: the documents whose ids are not in the list stay as they
\* were (content, metadata, embedding), only listed ids are removed, and when
\* none of the listed ids is stored the collection is unchanged.
C8_DeleteAbsent ==
  ret.op = "delete" =>
    /\ ret.err = ""
    /\ rows = {r \in ret.before : r.id \notin Range(ret.ids)}
    /\ (Range(ret.ids) \cap StoredIds(ret.before) = {}) => rows = ret.before

\* delete of an id that is not stored, on a collection that holds a document.
C8_Witness ==
  /\ ret.op = "delete"
  /\ ret.err = ""
  /\ ret.before # {}
  /\ Range(ret.ids) \cap StoredIds(ret.before) = {}
  /\ rows = ret.before

\* C9: a bare mapping of several fields is the top-level $and of one leaf per
\* field.  A search with the bare mapping compiles to the same predicate as
\* the explicit $and form, to the conjunction of the fields' leaves with
\* their operands kept as data, and returns the same documents in the same
\* order (or the same error) as a search with the explicit form.
IsBare(f) ==
  f.t = "dict" /\ Len(f.xs) > 1 /\ \A i \in DOMAIN f.xs : ~Sigil(f.xs[i].k)

Explicit(value) == IF value.t = "dict" THEN value ELSE Op("$eq", value)

ExplicitForm(f) ==
  AllOf([i \in DOMAIN f.xs |-> Field(f.xs[i].k, Explicit(Value(f.xs[i])))])

WellFormed(value) ==
  value.t = "dict" =>
    /\ Len(value.xs) = 1
    /\ value.xs[1].k \in LeafOperators
    /\ Compatible(value.xs[1].k, Value(value.xs[1]))

LeafOf(field, value) ==
  IF value.t = "dict"
    THEN [op |-> value.xs[1].k, field |-> field,
          value |-> Value(value.xs[1]), args |-> <<>>]
    ELSE [op |-> "$eq", field |-> field, value |-> value, args |-> <<>>]

Conjunction(f) ==
  IF \A i \in DOMAIN f.xs : WellFormed(Value(f.xs[i]))
    THEN [op |-> "$and", field |-> "", value |-> None,
          args |-> [i \in DOMAIN f.xs |-> LeafOf(f.xs[i].k, Value(f.xs[i]))]]
    ELSE Invalid

C9_BareIsAnd ==
  (ret.op = "search" /\ IsBare(ret.filter)) =>
    LET explicit == Search(rows, metric, ret.query, ret.k, ExplicitForm(ret.filter))
    IN  /\ compile(ret.filter) = compile(ExplicitForm(ret.filter))
        /\ compile(ret.filter) = Conjunction(ret.filter)
        /\ ret.err = explicit.err
        /\ ret.out = explicit.out

\* A search with a bare mapping of two fields that keeps one of two stored
\* documents: the other one satisfies one field only.
C9_Witness ==
  /\ ret.op = "search"
  /\ IsBare(ret.filter)
  /\ ret.err = ""
  /\ ret.k = 2
  /\ Cardinality(rows) = 2
  /\ Len(ret.out) = 1
  /\ \E r \in rows :
       /\ Doc(r) # ret.out[1]
       /\ \E i \in DOMAIN ret.filter.xs :
            Eval(LeafOf(ret.filter.xs[i].k, Value(ret.filter.xs[i])), r.metadata)

\* C10: a search that succeeds returns min(k, number of matching documents)
\* documents, each one stored now and satisfying the compiled filter; no
\* matching document left out is nearer to the query than a returned one; and
\* the result is ordered nearest first by the collection's metric.
Matches(filter, r) == filter = None \/ Eval(compile(filter), r.metadata)

Stored(d) == CHOOSE r \in rows : Doc(r) = d

C10_NearestK ==
  (ret.op = "search" /\ ret.err = "") =>
    LET q == embed(ret.query)
        matching == {r \in rows : Matches(ret.filter, r)}
        out == ret.out
    IN  /\ Len(out) <= ret.k
        /\ Len(out) = IF Cardinality(matching) < ret.k
                        THEN Cardinality(matching) ELSE ret.k
        /\ \A i \in DOMAIN out : \E r \in matching : Doc(r) = out[i]
        /\ \A i, j \in DOMAIN out : i # j => out[i].id # out[j].id
        /\ \A r \in matching :
             (\A i \in DOMAIN out : Doc(r) # out[i]) =>
               \A i \in DOMAIN out :
                 ~Closer(metric, r.embedding, Stored(out[i]).embedding, q)
        /\ \A i, j \in DOMAIN out :
             i < j => ~Closer(metric, Stored(out[j]).embedding,
                              Stored(out[i]).embedding, q)

\* A filtered search with k = 1 over two matching documents at different
\* distances from the query.
C10_Witness ==
  /\ ret.op = "search"
  /\ ret.err = ""
  /\ ret.filter # None
  /\ ret.k = 1
  /\ Len(ret.out) = 1
  /\ Cardinality({r \in rows : Matches(ret.filter, r)}) = 2
  /\ \E r \in rows :
       /\ Matches(ret.filter, r)
       /\ Closer(metric, Stored(ret.out[1]).embedding, r.embedding, embed(ret.query))

\* C11: a filter with a combinator whose children list is empty, at the root
\* or below it, does not compile; and a search whose filter does not compile
\* fails with InvalidFilterError and returns no documents, whatever the
\* collection holds: it is never answered as a search without filter.
RECURSIVE HasEmptyCombinator(_)
HasEmptyCombinator(f) ==
  /\ f.t = "dict"
  /\ Len(f.xs) = 1
  /\ f.xs[1].k \in LogicalOperators
  /\ f.xs[1].t = "list"
  /\ \/ f.xs[1].xs = <<>>
     \/ \E i \in DOMAIN f.xs[1].xs : HasEmptyCombinator(f.xs[1].xs[i])

C11_CompileErrorFailsSearch ==
  (ret.op = "search" /\ ret.filter # None) =>
    /\ HasEmptyCombinator(ret.filter) => compile(ret.filter) = Invalid
    /\ compile(ret.filter) = Invalid =>
         ret.err = "InvalidFilterError" /\ ret.out = <<>>
    /\ ret.err = "" => compile(ret.filter) # Invalid

\* A search with an empty combinator below the root, on a collection that
\* holds documents a search without filter would return.
C11_Witness ==
  /\ ret.op = "search"
  /\ HasEmptyCombinator(ret.filter)
  /\ Len(Value(ret.filter.xs[1]).xs) > 0
  /\ ret.err = "InvalidFilterError"
  /\ Search(rows, metric, ret.query, ret.k, None).out # <<>>

\* C12: MMR retrieval with k = 1 over a non-empty collection returns exactly
\* one document, the one a plain similarity search ranks first, for every
\* lambda_mult: the diversity term has no effect.
C12_MmrFirstIsNearest ==
  (ret.op = "mmr" /\ ret.k = 1 /\ rows # {}) =>
    /\ Len(ret.out) = 1
    /\ ret.out = Search(rows, metric, ret.query, 1, None).out
    /\ \A r \in rows :
         ~Closer(metric, r.embedding, Stored(ret.out[1]).embedding, embed(ret.query))

\* k = 1 with diversity weighted in, over two documents at different
\* distances from the query.
C12_Witness ==
  /\ ret.op = "mmr"
  /\ ret.k = 1
  /\ ret.lambda_mult < 2
  /\ Cardinality(rows) = 2
  /\ Len(ret.out) = 1
  /\ \E r \in rows :
       Closer(metric, Stored(ret.out[1]).embedding, r.embedding, embed(ret.query))

\* C13: at most one fetch to the identity provider is in flight for the
\* provider's credential cache slot (get_credential's cache has one slot and
\* one audience is asked for): of the resolvers that find no unexpired token,
\* only one is fetching at a time.
InFlight == {t \in Threads : pc[t] = "fetch"}

C13_OneFetchInFlight == Cardinality(InFlight) <= 1

\* C14: the issuer handle is constructed at most once, and every call of
\* get_credential() returns that one handle.
C14_HandleConstructedOnce ==
  /\ nHandles <= 1
  /\ \A t \in Threads : hnd[t] # 0 => hnd[t] = credCache

\* C15: every call of get_token_and_username() calls get_token() exactly
\* once, with the one fixed scope (a call under way has called it at most
\* once), a connection opened without the hook never calls it, and a call
\* leaves nothing behind in the caller: between calls the thread holds no
\* handle, the only thing kept is get_credential's cached handle.
C15_AsksIssuerOnce ==
  /\ \A c \in DOMAIN conns :
       /\ conns[c].asks <= conns[c].hooks
       /\ conns[c].asks = 1 => conns[c].scope = Audience
       /\ conns[c].res.kind # "none" => conns[c].asks = 1
       /\ conns[c].res.got # 0 => conns[c].res.got \in DOMAIN tokens
  /\ \A t \in Threads : pc[t] \in {"idle", "busy"} => hnd[t] = 0

\* Two calls have finished, the first with a token that has expired since,
\* the second with a token the issuer fetched anew.
C15_Witness ==
  /\ Len(conns) = 2
  /\ conns[1].asks = 1 /\ conns[1].res.got = 1 /\ 1 \in expired
  /\ conns[2].asks = 1 /\ conns[2].res.got = 2
  /\ \A t \in Threads : pc[t] \in {"idle", "busy"}

\* C16: the mode is the one USE_ENTRA_AUTH selects, for all connections.  A
\* built engine has blank username and password and the do_connect listener,
\* and every connection attempt ran the hook; a built URI carries DBUSER and
\* DBPASSWORD and has no listener, every connection was opened with these
\* without the hook, and get_credential() and get_token() were never called.
C16_ModesExclusive ==
  /\ connection = "engine" =>
       /\ USE_ENTRA_AUTH
       /\ url.username = "" /\ url.password = 0 /\ url.listeners = 1
       /\ \A c \in DOMAIN conns : conns[c].hooks = 1
  /\ connection = "uri" =>
       /\ ~USE_ENTRA_AUTH
       /\ url.username = "DBUSER" /\ url.password = StaticPassword
       /\ url.listeners = 0
       /\ nHandles = 0 /\ fetches = 0 /\ credCache = 0
       /\ \A t \in Threads : pc[t] \in {"idle", "busy"}
       /\ \A c \in DOMAIN conns :
            /\ conns[c].hooks = 0 /\ conns[c].asks = 0
            /\ conns[c].res = NoResult
            /\ conns[c].status \in {"open", "closed"}
            /\ conns[c].user = "DBUSER" /\ conns[c].password = StaticPassword
  /\ connection \in {"unbuilt", "KeyError"} => url = NoUrl /\ conns = <<>>

\* Static mode with two connections opened, one of them handed out again.
C16_Witness ==
  /\ connection = "uri"
  /\ Len(conns) = 2
  /\ conns[1].reused
  /\ conns[2].status = "open" /\ conns[2].password = StaticPassword

\* C17: every call of get_token_and_username() and every connection attempt
\* that has started ends: the thread leaves the hook, with the connection
\* open or with an error raised.
C17_NoIndefiniteBlock ==
  \A t \in Threads :
    (pc[t] \notin {"idle", "busy"}) ~> (pc[t] \in {"idle", "busy"})

\* C18: in token mode every connection attempt runs the hook itself with a
\* call of get_token_and_username() of its own, every attempt that opened
\* has the user and password its own call returned, and of the attempts
\* being opened at the same time at most one is fetching from the identity
\* provider.
Fetching == {c \in DOMAIN conns :
               conns[c].status = "connecting" /\ pc[conns[c].holder] = "fetch"}

C18_HookReentrant ==
  USE_ENTRA_AUTH =>
    /\ \A c \in DOMAIN conns :
         /\ conns[c].hooks = 1
         /\ conns[c].status # "connecting" => conns[c].asks = 1
         /\ Opened(c) =>
              /\ conns[c].user = conns[c].res.user
              /\ conns[c].password = conns[c].res.token
    /\ Cardinality(Fetching) <= 1

\* C19: a step that is a search (plain, with scores, or through the
\* retriever) leaves the collection as it was: the same documents with the
\* same content, metadata and embeddings, under the same metric.
IsSearch(op) == op \in {"search", "search_with_score", "mmr"}

C19_SearchReadOnly ==
  [][IsSearch(ret'.op) => (rows' = rows /\ metric' = metric /\ ret'.before = rows)]_vars

\* A search with scores that returned one of two stored documents.
C19_Witness ==
  /\ ret.op = "search_with_score"
  /\ Cardinality(rows) = 2
  /\ ret.before = rows
  /\ Len(ret.out) = 1 /\ Len(ret.scores) = 1

\* C20: callers writing the same id at the same time: at any moment, and so
\* when all calls have finished, the collection holds for every id written
\* exactly one document, whose content, metadata and embedding are those of
\* the write applied last to that id, and no document for an id never
\* written.
C20_LastWriteWins ==
  \A x \in Ids :
    {r \in rows : r.id = x} =
      IF applied[x] = NoElem THEN {}
      ELSE {[id |-> x, content |-> applied[x].doc.page_content,
             metadata |-> applied[x].doc.metadata,
             embedding |-> embed(applied[x].doc.page_content)]}

\* All calls have finished, and a row was overwritten with another document
\* while the other caller's call was under way.
C20_Witness ==
  /\ raced
  /\ \A c \in Callers : pending[c] = <<>>
  /\ Cardinality(rows) = 2

\* C21: for every token get_token() returned to a hook's call, the middle
\* segment with its padding is a multiple of 4 characters long, whatever the
\* payload's length, and decoding it asked the identity provider nothing
\* more: the call asked the issuer once, and there are no more fetches than
\* calls that found no cached token.
Decoded(c) == conns[c].res.got # 0

C21_PaddedToMultipleOf4 ==
  /\ \A c \in DOMAIN conns :
       Decoded(c) => /\ PaddedLen(tokens[conns[c].res.got].plen) % 4 = 0
                     /\ conns[c].asks = 1
  /\ fetches <= Cardinality({c \in DOMAIN conns : conns[c].asks > 0})

\* Tokens were decoded whose payload lengths need four and three characters
\* of padding.
C21_Witness ==
  \E c, d \in DOMAIN conns :
    /\ Decoded(c) /\ Decoded(d)
    /\ tokens[conns[c].res.got].plen % 4 = 0
    /\ tokens[conns[d].res.got].plen % 4 = 1
    /\ conns[c].res.kind = "return"
    /\ conns[d].res.exc = "binascii.Error"

\* C22: the user and the password the listener set on a connection are the
\* pair its own call of get_token_and_username() returned: the password is a
\* token and the user is that token's upn claim, also when the listeners of
\* several connections run at the same time and the token is renewed between
\* them.
HookSet(c) == conns[c].hooks > 0 /\ Opened(c)

C22_UserOfSameToken ==
  \A c \in DOMAIN conns :
    HookSet(c) =>
      /\ conns[c].password \in DOMAIN tokens
      /\ conns[c].user = tokens[conns[c].password].upn
      /\ conns[c].res.kind = "return"
      /\ conns[c].user = conns[c].res.user
      /\ conns[c].password = conns[c].res.token

\* Two connections whose listeners ran at the same time (each constructed a
\* credential object of its own), opened with different tokens of different
\* principals.
C22_Witness ==
  /\ Len(conns) = 2
  /\ HookSet(1) /\ HookSet(2)
  /\ conns[1].password # conns[2].password
  /\ conns[1].user # conns[2].user
  /\ nHandles = 2

\* C23: when get_token_and_username() raises in the listener, the attempt's
\* user and password stay as they were (blank), the attempt ends failed,
\* never open, its caller is back outside the pool without a connection, and
\* the step changes no other connection; a later attempt is made and
\* resolved as any other.
C23_FailedResolveOpensNothing ==
  [][\A c \in DOMAIN conns' :
       conns'[c].res.kind = "raise" =>
         /\ conns'[c].status = "failed"
         /\ conns'[c].user = "" /\ conns'[c].password = 0
         /\ conns'[c].holder = 0
         /\ (c \in DOMAIN conns /\ conns[c].res.kind # "raise") =>
              /\ conns[c].status = "connecting"
              /\ conns[c].user = "" /\ conns[c].password = 0
              /\ pc'[conns[c].holder] = "idle"
              /\ \A d \in DOMAIN conns \ {c} : conns'[d] = conns[d]]_vars

\* The resolution failed for one attempt while another connection, opened
\* with a token, stays open.
C23_Witness ==
  \E c, d \in DOMAIN conns :
    /\ conns[c].status = "failed" /\ conns[c].res.kind = "raise"
    /\ conns[c].user = "" /\ conns[c].password = 0
    /\ conns[d].status = "open" /\ conns[d].password \in DOMAIN tokens
    /\ conns[d].holder # 0

\* C24: sslmode is part of the descriptor in static mode only, where a
\* missing SSLMODE fails the construction; in token mode the descriptor holds
\* the host, the port (5432 when DBPORT is not set) and the database name and
\* nothing of SSLMODE, whose absence is no error; the static descriptor has
\* no port, with DBPORT set or not.
C24_SslmodeOnlyInStaticMode ==
  /\ connection = "uri" =>
       /\ "SSLMODE" \in environ
       /\ url.sslmode = "SSLMODE"
       /\ url.port = ""
  /\ connection = "engine" =>
       /\ url.sslmode = ""
       /\ url.host = "DBHOST" /\ url.database = "DBNAME"
       /\ url.port = IF "DBPORT" \in environ THEN "DBPORT" ELSE "5432"
  /\ (connection # "unbuilt" /\ ~USE_ENTRA_AUTH /\ "SSLMODE" \notin environ)
       => connection = "KeyError"
  /\ (connection # "unbuilt" /\ USE_ENTRA_AUTH /\ {"DBHOST", "DBNAME"} \subseteq environ)
       => connection = "engine"

\* The engine was built with neither SSLMODE nor DBPORT set.
C24_Witness ==
  /\ connection = "engine"
  /\ "SSLMODE" \notin environ /\ "DBPORT" \notin environ
  /\ url.port = "5432" /\ url.sslmode = ""

====
